---- MODULE Spec2Model ----
(***************************************************************************)
(* Model of the menu controller of embedded-gfx-menu-dev:                  *)
(*   src/src/menu/mod.rs            Menu, MenuState, Menu::draw            *)
(*   src/src/menu/menu_item.rs      MenuItem::draw (per-kind row drawing)  *)
(*   src/src/menu/items/submenu.rs  SubmenuItem::draw                      *)
(*                                                                         *)
(* Unsigned machine integers (usize for the cursor and the count, u32 for  *)
(* pixel sizes) are modelled at scaled widths of UsizeBits and U32Bits     *)
(* bits: the arithmetic is the code's arithmetic modulo 2^bits.  An        *)
(* overflowing operation panics when the build has overflow checks and     *)
(* wraps when it has not; the build is chosen in Init and never changes.   *)
(***************************************************************************)
EXTENDS Integers, Sequences, FiniteSets, TLC

VARIABLES
    menu_tree_root,    \* Menu.menu_tree_root: [label, kind, height, children]
    menu_style,        \* Menu.menu_style: [item_height, heading_height]
    highlighted_item,  \* MenuState.highlighted_item (the cursor)
    item_count,        \* MenuState.item_count
    overflow_checks,   \* build profile: TRUE = overflow panics, FALSE = wraps
    panicked,          \* a call has panicked; the program has stopped
    mutations,         \* history: number of completed mutation calls
    last_call          \* history: the most recent API call and its outcome

vars == <<menu_tree_root, menu_style, highlighted_item, item_count, overflow_checks,
          panicked, mutations, last_call>>

(***************************************************************************)
(* Bounds                                                                  *)
(***************************************************************************)
MaxItems == 2       \* mutation calls on the menu under test
MaxNested == 1      \* entries of a nested menu handed to add_submenu
UsizeBits == 3      \* scaled width of usize (cursor, item count)
U32Bits == 5        \* scaled width of u32 (pixel sizes)
MaxWrapped == 1     \* navigate_up calls on a cursor that has wrapped below 0

UsizeModulus == 2 ^ UsizeBits
USIZE_MAX == UsizeModulus - 1
WordModulus == 2 ^ U32Bits
WORD_MAX == WordModulus - 1

ItemHeights == {3, 4}          \* item font heights (MonoTextStyle)
HeaderHeights == {2}           \* heading font line heights
\* display sizes <<width, height>>: every row fits; one row fits and the
\* display is narrower than a submenu indicator; shorter than the heading
SurfaceSizes == {<<6, 14>>, <<1, 6>>, <<6, 1>>}

(***************************************************************************)
(* Machine arithmetic.  Each operation yields [val, overflow].             *)
(***************************************************************************)
\* u32
WrappingAdd(a, b) ==
    [val |-> (a + b) % WordModulus, overflow |-> a + b > WORD_MAX]

WrappingSub(a, b) ==
    [val |-> (a - b + WordModulus) % WordModulus, overflow |-> a < b]

\* usize
UsizeAdd(a, b) ==
    [val |-> (a + b) % UsizeModulus, overflow |-> a + b > USIZE_MAX]

UsizeSub(a, b) ==
    [val |-> (a - b + UsizeModulus) % UsizeModulus, overflow |-> a < b]

\* `x as i32` of a u32: two's complement reinterpretation
AsI32(x) == IF x >= WordModulus \div 2 THEN x - WordModulus ELSE x

\* i32 arithmetic without overflow checks: the result wraps into the i32
\* range (with overflow checks the unsigned subtraction that produced the
\* out-of-range operand has already panicked)
I32_MIN == -(WordModulus \div 2)
I32_MAX == -I32_MIN - 1
WrapI32(x) == ((x - I32_MIN) % WordModulus) + I32_MIN

\* `x as u32` of an i32: two's complement reinterpretation
AsU32(x) == x % WordModulus

\* u32 -> i32 saturating_cast
SaturatingCast(x) == IF x >= WordModulus \div 2 THEN (WordModulus \div 2) - 1 ELSE x

Max(a, b) == IF a >= b THEN a ELSE b
Min(a, b) == IF a <= b THEN a ELSE b

(***************************************************************************)
(* The menu tree (trees::Tree<MenuItems>).  A node is a record             *)
(* [label, kind, height, position, children]; position is the entry's      *)
(* `position` field (Point::zero() at construction, moved by                *)
(* View::translate_impl); height is the height of the bounding             *)
(* box View::bounds() measures with the node's item_character_style, which *)
(* for a MonoTextStyle is the font height whatever the label.              *)
(***************************************************************************)
LeafKinds == {"Checkbox", "Selector", "Section"}
NestedKinds == {"Checkbox"}     \* entries of the nested menus
Kinds == LeafKinds \cup {"Submenu"}

\* the moves a host applies to an entry of its own before adding it, and
\* the kinds of entry it moves

RootLabel == "Settings"
NestedLabel == "Sub"
LabelOf(kind) ==
    CASE kind = "Checkbox" -> "Sound"
      [] kind = "Selector" -> "Mode"
      [] kind = "Section"  -> "About"
      [] kind = "Submenu"  -> NestedLabel

\* Tree::new(data): a node without children
TreeNew(label, kind, height) ==
    [label |-> label, kind |-> kind, height |-> height,
     position |-> <<0, 0>>, children |-> <<>>]

\* Tree::push_back(subtree): the subtree becomes the last child, whole
PushBack(tree, subtree) ==
    [tree EXCEPT !.children = Append(tree.children, subtree)]

\* the depth-first traversal, children in insertion order, of all the nodes
\* below a node (the node itself excluded), given the node's children
RECURSIVE DepthFirst(_)
DepthFirst(kids) ==
    IF kids = <<>> THEN <<>>
    ELSE <<Head(kids)>> \o DepthFirst(Head(kids).children)
                       \o DepthFirst(Tail(kids))

\* mutant: an iterator over every descendant, depth first
TreeIterDepthFirst(tree) == DepthFirst(tree.children)

\* Tree::iter(): the forward iterator over the node's child nodes (the
\* direct children only, neither the node itself nor deeper descendants)
TreeIter(tree) == tree.children

\* mutant: an iterator count that includes the root
IterCountWithRoot(tree) == Len(TreeIter(tree)) + 1

\* mutant: the count of all the nodes of the tree, root included
IterCountNodes(tree) == Len(DepthFirst(tree.children)) + 1

\* self.menu_tree_root.iter().count()
IterCount(tree) == Len(TreeIter(tree))

\* Menu::new(label, menu_style): the root is a Submenu entry with the title
MenuNew(label, item_height) == TreeNew(label, "Submenu", item_height)

\* the entries add_checkbox / add_selector / add_section build
CheckboxItemNew(label, item_height) == TreeNew(label, "Checkbox", item_height)
MultiOptionItemNew(label, item_height) == TreeNew(label, "Selector", item_height)
SectionItemNew(label, item_height) == TreeNew(label, "Section", item_height)
SubmenuItemNew(label, item_height) == TreeNew(label, "Submenu", item_height)

LeafItem(kind, item_height) == TreeNew(LabelOf(kind), kind, item_height)

\* View::translate_impl(by): self.position += by, an i32 addition per axis;
\* yields [val, overflow]
TranslateImpl(node, by) ==
    LET x == node.position[1] + by[1]
        y == node.position[2] + by[2]
    IN  [val |-> [node EXCEPT !.position = <<WrapI32(x), WrapI32(y)>>],
         overflow |-> x # WrapI32(x) \/ y # WrapI32(y)]

\* successive View::translate_impl calls on one entry; yields [val, overflow]
RECURSIVE TranslateAll(_, _)
TranslateAll(node, bys) ==
    IF bys = <<>> THEN [val |-> node, overflow |-> FALSE]
    ELSE LET first == TranslateImpl(node, Head(bys))
             rest == TranslateAll(first.val, Tail(bys))
         IN  [val |-> rest.val, overflow |-> first.overflow \/ rest.overflow]

\* what hosts do to an entry before add_item: <<kind, translate_impl calls>>;
\* the last one moves the entry past i32::MAX
HostTranslations ==
    (Kinds \X {<<>>})
      \cup ({"Checkbox", "Submenu"} \X {<< <<1, 2>> >>})
      \cup ({"Section"} \X {<< <<I32_MAX, 0>>, <<1, 0>> >>})

\* the entries a host makes itself to hand to add_item: any variant as
\* constructed, or moved by View::translate_impl first
HostItems(item_height) ==
    {TranslateAll(LeafItem(t[1], item_height), t[2]) : t \in HostTranslations}

\* The nested menus handed to add_submenu: Menu::new followed by at most
\* MaxNested add_* calls, built with the same style as the parent.
RECURSIVE NestedMenusOfLen(_, _)
NestedMenusOfLen(n, item_height) ==
    IF n = 0 THEN {MenuNew(NestedLabel, item_height)}
    ELSE {PushBack(m, LeafItem(k, item_height)) :
            m \in NestedMenusOfLen(n - 1, item_height), k \in NestedKinds}

NestedMenus(item_height) ==
    UNION {NestedMenusOfLen(n, item_height) : n \in 0..MaxNested}

\* From<Menu> for Tree<MenuItems>: the menu's tree, unchanged
MenuInto(menu) == menu

(***************************************************************************)
(* MenuState                                                               *)
(***************************************************************************)
\* MenuState::new
\* (panic and wrapped report what an overflowing step did)
MenuStateNew ==
    [highlighted_item |-> 0, item_count |-> 0, panic |-> FALSE, wrapped |-> FALSE]

\* mutant: the cursor is reset with the count
update_item_count_reset(st, n) ==
    [st EXCEPT !.item_count = n, !.highlighted_item = 0]

\* MenuState::update_item_count
update_item_count(st, n) == [st EXCEPT !.item_count = n]

\* mutant: wraps as soon as the cursor reaches item_count
move_down_ge(st, checks) ==
    LET inc == UsizeAdd(st.highlighted_item, 1) IN
    IF inc.overflow /\ checks THEN [st EXCEPT !.panic = TRUE]
    ELSE IF inc.val >= st.item_count
    THEN [st EXCEPT !.highlighted_item = 0, !.wrapped = inc.overflow]
    ELSE [st EXCEPT !.highlighted_item = inc.val, !.wrapped = inc.overflow]

\* mutant: wraps one step later
move_down_late(st, checks) ==
    LET inc == UsizeAdd(st.highlighted_item, 1) IN
    IF inc.overflow /\ checks THEN [st EXCEPT !.panic = TRUE]
    ELSE IF inc.val > st.item_count + 1
    THEN [st EXCEPT !.highlighted_item = 0, !.wrapped = inc.overflow]
    ELSE [st EXCEPT !.highlighted_item = inc.val, !.wrapped = inc.overflow]

\* MenuState::move_down
move_down(st, checks) ==
    LET inc == UsizeAdd(st.highlighted_item, 1) IN
    IF inc.overflow /\ checks THEN [st EXCEPT !.panic = TRUE]
    ELSE IF inc.val > st.item_count
    THEN [st EXCEPT !.highlighted_item = 0, !.wrapped = inc.overflow]
    ELSE [st EXCEPT !.highlighted_item = inc.val, !.wrapped = inc.overflow]

\* MenuState::move_up
move_up(st, checks) ==
    IF st.highlighted_item = 0
    THEN LET dec == UsizeSub(st.item_count, 1) IN
         IF dec.overflow /\ checks THEN [st EXCEPT !.panic = TRUE]
         ELSE [st EXCEPT !.highlighted_item = dec.val, !.wrapped = dec.overflow]
    ELSE [st EXCEPT !.highlighted_item = st.highlighted_item - 1]

\* MenuState::highlighted_item
HighlightedItem(st) == st.highlighted_item

\* the MenuState held by the menu, as a record
MenuStateNow ==
    [highlighted_item |-> highlighted_item, item_count |-> item_count,
     panic |-> FALSE, wrapped |-> FALSE]

(***************************************************************************)
(* Geometry (embedded_graphics Rectangle and DrawTargetExt::cropped).      *)
(* A rectangle is [x, y, w, h]: i32 top-left, u32 size.  A draw target is  *)
(* [ox, oy, w, h]: its origin on the physical surface and its size; its    *)
(* bounding box is the rectangle at (0, 0) with that size.                 *)
(***************************************************************************)
Rect(x, y, w, h) == [x |-> x, y |-> y, w |-> w, h |-> h]
RectZero == Rect(0, 0, 0, 0)

BoundingBox(display) == Rect(0, 0, display.w, display.h)

\* Rectangle::resized_height(height, AnchorY::Bottom); a zero size counts as 1
ResizedHeightBottom(r, height) ==
    LET delta == Max(SaturatingCast(r.h), 1) - Max(SaturatingCast(height), 1)
    IN  [r EXCEPT !.y = WrapI32(r.y + delta), !.h = height]

\* Rectangle::resized_width(width, AnchorX::Right)
ResizedWidthRight(r, width) ==
    LET delta == Max(SaturatingCast(r.w), 1) - Max(SaturatingCast(width), 1)
    IN  [r EXCEPT !.x = WrapI32(r.x + delta), !.w = width]

\* Rectangle::resized_width(width, AnchorX::Left)
ResizedWidthLeft(r, width) == [r EXCEPT !.w = width]

HasBottomRight(r) == r.w > 0 /\ r.h > 0
BottomRightX(r) == WrapI32(r.x + AsI32(r.w) - 1)
BottomRightY(r) == WrapI32(r.y + AsI32(r.h) - 1)

Contains(r, px, py) ==
    /\ px >= r.x /\ py >= r.y
    /\ HasBottomRight(r)
    /\ px <= BottomRightX(r) /\ py <= BottomRightY(r)

Overlaps(s1, e1, s2, e2) ==
    \/ (s2 <= s1 /\ s1 <= e2)
    \/ (s2 <= e1 /\ e1 <= e2)
    \/ (s1 < s2 /\ e1 > e2)

\* i32::abs on a wrapping build: the magnitude, i32::MIN for i32::MIN
AbsI32(x) == IF x < 0 THEN WrapI32(-x) ELSE x

\* Size::from_bounding_box, one axis: (c1 - c2).abs() as u32 + 1
FromBoundingBox(c1, c2) == (AsU32(AbsI32(WrapI32(c1 - c2))) + 1) % WordModulus

\* Rectangle::with_corners: top_left is the component-wise minimum of the
\* corners, the size is Size::from_bounding_box of them
WithCorners(x1, y1, x2, y2) ==
    Rect(Min(x1, x2), Min(y1, y2), FromBoundingBox(x1, x2), FromBoundingBox(y1, y2))

\* Rectangle::intersection
Intersection(a, b) ==
    LET ax2 == BottomRightX(a)
        ay2 == BottomRightY(a)
        bx2 == BottomRightX(b)
        by2 == BottomRightY(b)
    IN  IF HasBottomRight(a) /\ HasBottomRight(b)
        THEN IF /\ Overlaps(a.x, ax2, b.x, bx2)
                /\ Overlaps(a.y, ay2, b.y, by2)
             THEN WithCorners(Max(a.x, b.x), Max(a.y, b.y),
                              Min(ax2, bx2), Min(ay2, by2))
             ELSE RectZero
        ELSE IF HasBottomRight(b) /\ ~HasBottomRight(a)
        THEN IF Contains(b, a.x, a.y) THEN a ELSE RectZero
        ELSE IF HasBottomRight(a) /\ ~HasBottomRight(b)
        THEN IF Contains(a, b.x, b.y) THEN b ELSE RectZero
        ELSE RectZero

\* display.cropped(&area): the area is intersected with the target's
\* bounding box; the new target is translated to the area's top-left
Cropped(display, area) ==
    LET a == Intersection(area, BoundingBox(display))
    IN  [ox |-> WrapI32(display.ox + a.x), oy |-> WrapI32(display.oy + a.y),
         w |-> a.w, h |-> a.h]

(***************************************************************************)
(* Drawing.  A draw pass is folded over an accumulator                     *)
(*   [result, ops, fail_at, wrapped, view_underflow, row_underflow]        *)
(* result is "Running" until a surface operation fails ("Err": the `?`     *)
(* returns the error) or an overflow check panics ("Panic").  ops is the   *)
(* sequence of surface operations issued so far; fail_at is the position   *)
(* of the surface operation the surface fails (0: none fails); wrapped     *)
(* tells that an unsigned operation of the pass overflowed and wrapped;    *)
(* view_underflow and row_underflow tell that the viewport subtraction     *)
(* (display height - header height) or a row subtraction (remaining height *)
(* - item height) was evaluated with a result below zero.                  *)
(***************************************************************************)
NoPts == <<>>

Op(kind, entry, text, style, target, region, pos, align, pts, height) ==
    [op |-> kind, entry |-> entry, text |-> text, style |-> style,
     area |-> target, region |-> region, pos |-> pos, align |-> align,
     pts |-> pts, height |-> height]

\* mutant: the surface's error is dropped and the pass goes on
IssueIgnoringError(acc, op) ==
    IF acc.result # "Running" THEN acc
    ELSE [acc EXCEPT !.ops = Append(acc.ops, op)]

\* one fallible surface operation followed by `?`
Issue(acc, op) ==
    IF acc.result # "Running" THEN acc
    ELSE LET ops == Append(acc.ops, op) IN
         IF Len(ops) = acc.fail_at
         THEN [acc EXCEPT !.ops = ops, !.result = "Err"]
         ELSE [acc EXCEPT !.ops = ops]

\* an unsigned overflow: a panic under overflow checks, else a silent wrap
Overflowed(acc, checks) ==
    IF acc.result # "Running" THEN acc
    ELSE IF checks THEN [acc EXCEPT !.result = "Panic"]
    ELSE [acc EXCEPT !.wrapped = TRUE]

\* Text::with_baseline(label, position, item_character_style, Baseline::Top)
LabelText(node, entry, target, region) ==
    Op("text", entry, node.label, "item", target, region, node.position,
       "Left", NoPts, node.height)

\* SubmenuItem::draw, and the Submenu arm of MenuItem::draw
SubmenuDraw(acc, node, entry, display, checks) ==
    LET pad == 2
        h == node.height
        ind_w == h \div 2
        display_size == BoundingBox(display)
        ind_area == ResizedWidthRight(display_size, ind_w)
        indicator_display == Cropped(display, ind_area)
        y2 == WrappingSub(h, pad)
        x3 == WrappingSub(ind_w, pad)
        d3 == WrappingSub(h, (pad * 2) % WordModulus)
        y3 == WrappingAdd(d3.val \div 2, pad)
        overflow1 == y2.overflow \/ x3.overflow \/ d3.overflow \/ y3.overflow
        pts == << <<0, AsI32(pad)>>, <<0, AsI32(y2.val)>>,
                  <<AsI32(x3.val), AsI32(y3.val)>> >>
        tri == Op("triangle", entry, "", "fill", indicator_display, display,
                  <<0, 0>>, "Left", pts, h)
        lw == WrappingSub(display_size.w, ind_w)
        label_area == ResizedWidthLeft(display_size, lw.val)
        label_display == Cropped(display, label_area)
        a0 == IF overflow1 THEN Overflowed(acc, checks) ELSE acc
        a1 == Issue(a0, tri)
        a2 == IF lw.overflow THEN Overflowed(a1, checks) ELSE a1
    IN  Issue(a2, LabelText(node, entry, label_display, display))

\* the Checkbox arm of MenuItem::draw: the label, then the glyph "[ ]"
\* right-aligned at x = the region's width
CheckboxDraw(acc, node, entry, display) ==
    LET a1 == Issue(acc, LabelText(node, entry, display, display))
        glyph == Op("text", entry, "[ ]", "item", display, display,
                    <<AsI32(display.w), 0>>, "Right", NoPts, node.height)
    IN  Issue(a1, glyph)

\* mutant: every entry gets the checkbox glyph
PlainDrawWithGlyph(acc, node, entry, display) ==
    CheckboxDraw(acc, node, entry, display)

\* the remaining arm of MenuItem::draw (Section, Selector): the label alone
PlainDraw(acc, node, entry, display) ==
    Issue(acc, LabelText(node, entry, display, display))

\* MenuItem::draw: dispatch on the entry's kind
ItemDraw(acc, node, entry, display, checks) ==
    CASE node.kind = "Submenu"  -> SubmenuDraw(acc, node, entry, display, checks)
      [] node.kind = "Checkbox" -> CheckboxDraw(acc, node, entry, display)
      [] OTHER                  -> PlainDraw(acc, node, entry, display)

(***************************************************************************)
(* Menu::draw                                                              *)
(***************************************************************************)
\* mutant: one entry too many is skipped
SkipOneMore(seq, n) ==
    IF n + 1 >= Len(seq) THEN <<>> ELSE SubSeq(seq, n + 2, Len(seq))

\* Iterator::skip(n)
Skip(seq, n) == IF n >= Len(seq) THEN <<>> ELSE SubSeq(seq, n + 1, Len(seq))

\* the loop's break condition: item_height > remaining_item_area.size().height
ExceedsViewport(item_height, remaining_height) == item_height > remaining_height

\* the `for menu_item in menu_iter` loop; entry is the position of
\* Head(items) among the root's children
RECURSIVE DrawLoop(_, _, _, _, _, _)
DrawLoop(acc, remaining, items, entry, display, checks) ==
    IF acc.result # "Running" \/ items = <<>> THEN acc
    ELSE LET node == Head(items)
             item_height == node.height
         IN  IF ExceedsViewport(item_height, remaining.h) THEN acc
             ELSE LET item_display == Cropped(display, remaining)
                      a1 == ItemDraw(acc, node, entry, item_display, checks)
                      rest == WrappingSub(remaining.h, item_height)
                      a2 == IF rest.overflow /\ a1.result = "Running"
                            THEN Overflowed([a1 EXCEPT !.row_underflow = TRUE],
                                            checks)
                            ELSE a1
                  IN  DrawLoop(a2, ResizedHeightBottom(remaining, rest.val),
                               Tail(items), entry + 1, display, checks)

\* Menu::draw on a display of the given size, whose fail_at-th surface
\* operation fails
MenuDraw(root, style, cursor, display, fail_at, checks) ==
    LET acc0 == [result |-> "Running", ops |-> <<>>, fail_at |-> fail_at,
                 wrapped |-> FALSE, view_underflow |-> FALSE,
                 row_underflow |-> FALSE]
        display_area == BoundingBox(display)
        clear == Op("clear", 0, "", "background", display, display, <<0, 0>>,
                    "Left", NoPts, 0)
        a1 == Issue(acc0, clear)
        header_height == style.heading_height
        header == Op("text", 0, root.label, "heading", display, display,
                     <<0, 0>>, "Left", NoPts, header_height)
        a2 == Issue(a1, header)
        view_h == WrappingSub(display_area.h, header_height)
        a3 == IF view_h.overflow /\ a2.result = "Running"
              THEN Overflowed([a2 EXCEPT !.view_underflow = TRUE], checks)
              ELSE a2
        remaining_item_area == ResizedHeightBottom(display_area, view_h.val)
        menu_iter == Skip(TreeIter(root), cursor)
        a4 == DrawLoop(a3, remaining_item_area, menu_iter, cursor + 1, display,
                       checks)
    IN  [a4 EXCEPT !.result = IF @ = "Running" THEN "Ok" ELSE @]

(***************************************************************************)
(* The program: a Menu under construction, navigation and drawing.         *)
(***************************************************************************)
NoDisplay == [ox |-> 0, oy |-> 0, w |-> 0, h |-> 0]

Call(op, result, wrapped) ==
    [op |-> op, result |-> result, wrapped |-> wrapped, ops |-> <<>>,
     display |-> NoDisplay, fail_at |-> 0, cursor |-> 0,
     view_underflow |-> FALSE, row_underflow |-> FALSE]

Styles == [item_height : ItemHeights, heading_height : HeaderHeights]

\* Menu::new
Init ==
    /\ menu_style \in Styles
    /\ menu_tree_root = MenuNew(RootLabel, menu_style.item_height)
    /\ highlighted_item = MenuStateNew.highlighted_item
    /\ item_count = MenuStateNew.item_count
    /\ overflow_checks \in BOOLEAN
    /\ panicked = FALSE
    /\ mutations = 0
    /\ last_call = Call("new", "Ok", FALSE)

\* Menu::add_item, called as `op`
AddItem(item, op) ==
    /\ ~panicked
    /\ mutations < MaxItems
    /\ menu_tree_root' = PushBack(menu_tree_root, item)
    /\ LET st == update_item_count(MenuStateNow, IterCount(menu_tree_root'))
       IN  /\ item_count' = st.item_count
           /\ highlighted_item' = st.highlighted_item
    /\ mutations' = mutations + 1
    /\ last_call' = Call(op, "Ok", FALSE)
    /\ UNCHANGED <<menu_style, overflow_checks, panicked>>

\* Menu::add_item called by the host with an entry of its own making; a
\* translate_impl that overflows panics on a checked build before the call
AddItemCall ==
    \E item \in HostItems(menu_style.item_height) :
        IF item.overflow /\ overflow_checks
        THEN /\ ~panicked
             /\ mutations < MaxItems
             /\ panicked' = TRUE
             /\ last_call' = Call("translate_impl", "Panic", FALSE)
             /\ UNCHANGED <<menu_tree_root, menu_style, highlighted_item,
                            item_count, overflow_checks, mutations>>
        ELSE AddItem(item.val, "add_item")

\* Menu::add_checkbox
AddCheckbox ==
    AddItem(CheckboxItemNew(LabelOf("Checkbox"), menu_style.item_height),
            "add_checkbox")

\* Menu::add_selector
AddSelector ==
    AddItem(MultiOptionItemNew(LabelOf("Selector"), menu_style.item_height),
            "add_selector")

\* Menu::add_section
AddSection ==
    AddItem(SectionItemNew(LabelOf("Section"), menu_style.item_height),
            "add_section")

\* Menu::add_submenu
AddSubmenu ==
    \E submenu \in NestedMenus(menu_style.item_height) :
        /\ ~panicked
        /\ mutations < MaxItems
        /\ menu_tree_root' = PushBack(menu_tree_root, MenuInto(submenu))
        /\ LET st == update_item_count(MenuStateNow, IterCount(menu_tree_root'))
           IN  /\ item_count' = st.item_count
               /\ highlighted_item' = st.highlighted_item
        /\ mutations' = mutations + 1
        /\ last_call' = Call("add_submenu", "Ok", FALSE)
        /\ UNCHANGED <<menu_style, overflow_checks, panicked>>

\* the effect of a MenuState step `st` on the menu, called as `op`
Navigate(st, op) ==
    /\ ~panicked
    /\ highlighted_item' = st.highlighted_item
    /\ panicked' = st.panic
    /\ last_call' = Call(op, IF st.panic THEN "Panic" ELSE "Ok", st.wrapped)
    /\ UNCHANGED <<menu_tree_root, menu_style, item_count, overflow_checks,
                   mutations>>

\* Menu::navigate_down
NavigateDown == Navigate(move_down(MenuStateNow, overflow_checks), "navigate_down")

\* Menu::navigate_up; a cursor that has wrapped below 0 is moved further up
\* at most MaxWrapped times
NavigateUp ==
    /\ highlighted_item <= item_count \/ highlighted_item > USIZE_MAX - MaxWrapped
    /\ Navigate(move_up(MenuStateNow, overflow_checks), "navigate_up")

\* mutant: select_item moves the cursor
SelectItemMoves ==
    /\ ~panicked
    /\ highlighted_item' = (highlighted_item + 1) % UsizeModulus
    /\ last_call' = Call("select_item", "Ok", FALSE)
    /\ UNCHANGED <<menu_tree_root, menu_style, item_count, overflow_checks,
                   panicked, mutations>>

\* Menu::select_item: an empty body
SelectItem ==
    /\ ~panicked
    /\ last_call' = Call("select_item", "Ok", FALSE)
    /\ UNCHANGED <<menu_tree_root, menu_style, highlighted_item, item_count,
                   overflow_checks, panicked, mutations>>

Displays == {[ox |-> 0, oy |-> 0, w |-> sz[1], h |-> sz[2]] : sz \in SurfaceSizes}

\* the pass on `display` when no surface operation fails
FullPass(display) ==
    MenuDraw(menu_tree_root, menu_style, HighlightedItem(MenuStateNow), display,
             0, overflow_checks)

\* the operations the surface may fail (0: none) in the pass whose
\* failure-free run is `full`: any of those it issues
FailPoints(full) == 0..Len(full.ops)

\* Menu::draw on some display; the surface fails one of the operations the
\* pass issues, or none
Draw ==
    /\ ~panicked
    /\ \E display \in Displays :
      \E full \in {FullPass(display)} :
        \E fail_at \in FailPoints(full) :
          \E r \in {IF fail_at = 0 THEN full
                    ELSE MenuDraw(menu_tree_root, menu_style,
                                  HighlightedItem(MenuStateNow), display,
                                  fail_at, overflow_checks)} :
            /\ panicked' = (r.result = "Panic")
            /\ last_call' = [op |-> "draw", result |-> r.result,
                             wrapped |-> r.wrapped, ops |-> r.ops,
                             display |-> display, fail_at |-> fail_at,
                             cursor |-> highlighted_item,
                             view_underflow |-> r.view_underflow,
                             row_underflow |-> r.row_underflow]
            /\ UNCHANGED <<menu_tree_root, menu_style, highlighted_item,
                           item_count, overflow_checks, mutations>>

Next ==
    \/ AddItemCall
    \/ AddCheckbox
    \/ AddSelector
    \/ AddSection
    \/ AddSubmenu
    \/ NavigateDown
    \/ NavigateUp
    \/ SelectItem
    \/ Draw

Spec == Init /\ [][Next]_vars

(***************************************************************************)
(* Repeated navigate_down on a menu whose construction is over: Init is    *)
(* any menu the mutation calls can build, the cursor still at 0, and the   *)
(* host keeps calling navigate_down.                                       *)
(***************************************************************************)
\* the entries one mutation call can append: a host entry whose
\* translate_impl overflowed exists only on a build without overflow checks
Entries(item_height, checks) ==
    {item.val : item \in {i \in HostItems(item_height) :
                             ~(i.overflow /\ checks)}}
      \cup NestedMenus(item_height)

\* the trees n mutation calls build on a fresh menu
RECURSIVE BuiltMenusOfLen(_, _, _)
BuiltMenusOfLen(n, item_height, checks) ==
    IF n = 0 THEN {MenuNew(RootLabel, item_height)}
    ELSE {PushBack(m, e) : m \in BuiltMenusOfLen(n - 1, item_height, checks),
                           e \in Entries(item_height, checks)}

BuiltMenus(item_height, checks) ==
    UNION {BuiltMenusOfLen(n, item_height, checks) : n \in 0..MaxItems}

InitDown ==
    /\ menu_style \in Styles
    /\ overflow_checks \in BOOLEAN
    /\ menu_tree_root \in BuiltMenus(menu_style.item_height, overflow_checks)
    /\ highlighted_item = MenuStateNew.highlighted_item
    /\ item_count = IterCount(menu_tree_root)
    /\ panicked = FALSE
    /\ mutations = Len(menu_tree_root.children)
    /\ last_call = Call(IF mutations = 0 THEN "new" ELSE "add_item", "Ok", FALSE)

NextDown == NavigateDown

SpecDown == InitDown /\ [][NextDown]_vars /\ WF_vars(NavigateDown)

(***************************************************************************)
(* A host that builds and navigates the menu and never calls navigate_up   *)
(* on a menu whose item_count is 0.                                        *)
(***************************************************************************)
NavigateUpGuarded == item_count # 0 /\ NavigateUp

NextNav ==
    \/ AddItemCall
    \/ AddCheckbox
    \/ AddSelector
    \/ AddSection
    \/ AddSubmenu
    \/ NavigateDown
    \/ NavigateUpGuarded

SpecNav == Init /\ [][NextNav]_vars

(***************************************************************************)
(* Properties                                                              *)
(***************************************************************************)
Children == TreeIter(menu_tree_root)
LastOps == last_call.ops
Drew == last_call.op = "draw"

\* the sum of the measured heights of the children a..b
RECURSIVE SumHeights(_, _, _)
SumHeights(kids, a, b) ==
    IF a > b THEN 0 ELSE kids[a].height + SumHeights(kids, a + 1, b)

\* the viewport height draw computes for the last display: the u32 value of
\* display height - heading line height (wrapped when the display is shorter
\* than the heading and the build does not check overflow)
ViewportHeight ==
    WrappingSub(last_call.display.h, menu_style.heading_height).val

\* the last display is at least as high as the heading line
SurfaceHoldsHeader == last_call.display.h >= menu_style.heading_height

AllNestedEmpty == \A i \in DOMAIN Children : Children[i].children = <<>>

\* C1 (as stated): after N >= 1 mutation calls on a fresh Menu, none of them
\* an add_submenu of a menu with entries, item_count equals N + 1.
C1_CountIncludesRoot ==
    (mutations >= 1 /\ AllNestedEmpty) => item_count = mutations + 1

\* C1 (amended): after N mutation calls on a fresh Menu, none of them an
\* add_submenu of a menu with entries, item_count equals N: iter() walks the
\* root's children and the root itself is not counted.
C1_CountIsCalls ==
    AllNestedEmpty => item_count = mutations

C1_Witness ==
    /\ mutations >= 2
    /\ AllNestedEmpty
    /\ \E i \in DOMAIN Children : Children[i].kind = "Submenu"
    /\ \E i \in DOMAIN Children : Children[i].kind = "Checkbox"
    /\ item_count = 2

\* C2: in every reachable state with item_count > 1, move_down then move_up
\* restores the cursor, and move_up then move_down restores the cursor.
C2_RoundTrip ==
    (item_count > 1 /\ ~panicked) =>
        LET st == MenuStateNow
            du == move_up(move_down(st, overflow_checks), overflow_checks)
            ud == move_down(move_up(st, overflow_checks), overflow_checks)
        IN  /\ HighlightedItem(du) = highlighted_item
            /\ HighlightedItem(ud) = highlighted_item

\* C3: with item_count fixed at n, repeated navigate_down from cursor 0 steps
\* the cursor 0, 1, ..., n, 0, ...: it never exceeds n, each call moves it to
\* the next value of that cycle (n is followed by 0), and every value of
\* 0..n recurs forever.
C3_DownCycle ==
    /\ [](highlighted_item <= item_count)
    /\ [][/\ item_count' = item_count
          /\ highlighted_item' =
               IF highlighted_item = item_count THEN 0
               ELSE highlighted_item + 1]_vars
    /\ \A v \in 0..(MaxItems + 1) :
         []<>(v <= item_count => highlighted_item = v)

C3_Witness ==
    /\ last_call.op = "navigate_down"
    /\ item_count >= 2
    /\ highlighted_item = item_count

\* C4: whenever item_count > 0 the cursor satisfies 0 <= cursor < item_count.
C4_CursorInRange ==
    item_count > 0 => (0 <= highlighted_item /\ highlighted_item < item_count)

\* the positions in the last pass's operations that belong to entry rows
EntryOps == {i \in DOMAIN LastOps : LastOps[i].entry > 0}

\* the height of the last display left below the heading line
SpaceBelowHeader ==
    IF SurfaceHoldsHeader
    THEN last_call.display.h - menu_style.heading_height
    ELSE 0

\* C5: draw never renders a partial row.  Every operation of a pass is the
\* clear (first), the header (second) or belongs to an entry after the skipped
\* ones such that it and all entries walked before it fit, one below the
\* other, in the height of the surface below the heading; so once an entry's
\* height exceeds the remaining viewport height neither it nor any later
\* entry is drawn.
C5_NoPartialRow ==
    Drew =>
        \A i \in DOMAIN LastOps :
            LET o == LastOps[i] IN
            /\ (o.op = "clear") = (i = 1)
            /\ (o.entry = 0) = (i <= 2)
            /\ o.entry > 0 =>
                 /\ o.entry > highlighted_item
                 /\ o.entry <= Len(Children)
                 /\ SumHeights(Children, highlighted_item + 1, o.entry)
                      <= SpaceBelowHeader

\* C6: when the surface fails an operation of a draw pass, draw returns the
\* error at once: the operations issued are exactly those the failure-free
\* pass issues up to and including the failing one (nothing after it, nothing
\* repeated, nothing undone), and draw reports an error only then.
C6_ErrorAborts ==
    Drew =>
        LET full == FullPass(last_call.display) IN
        /\ last_call.fail_at > 0 =>
             /\ last_call.result = "Err"
             /\ LastOps = SubSeq(full.ops, 1, last_call.fail_at)
        /\ last_call.result = "Err" => last_call.fail_at > 0

C6_Witness ==
    /\ Drew
    /\ SurfaceHoldsHeader
    /\ last_call.result = "Err"
    /\ last_call.fail_at >= 4
    /\ Len(FullPass(last_call.display).ops) > last_call.fail_at
    /\ Len(LastOps) = last_call.fail_at
    /\ LastOps[Len(LastOps)].entry = highlighted_item + 2

\* C7: navigate_up and navigate_down never fail: each call completes.
C7_NavigationNeverFails ==
    last_call.op \in {"navigate_up", "navigate_down"} => last_call.result = "Ok"

\* what is drawn of one operation: <<operation, entry, text, alignment>>
Shape(o) == <<o.op, o.entry, o.text, o.align>>

\* the row of the entry `node` at position e of the children
ExpectedRow(node, e) ==
    CASE node.kind = "Checkbox" ->
           << <<"text", e, node.label, "Left">>, <<"text", e, "[ ]", "Right">> >>
      [] node.kind = "Submenu" ->
           << <<"triangle", e, "", "Left">>, <<"text", e, node.label, "Left">> >>
      [] OTHER -> << <<"text", e, node.label, "Left">> >>

RECURSIVE ExpectedRows(_, _)
ExpectedRows(kids, e) ==
    IF e > Len(kids) THEN <<>>
    ELSE ExpectedRow(kids[e], e) \o ExpectedRows(kids, e + 1)

\* C8: a successful pass with the cursor at 0 over entries that all fit issues
\* the clear, then the title at the top-left of the surface, then one row per
\* entry in insertion order: label and glyph for a Checkbox, label alone for a
\* Section or Selector, triangle and label for a Submenu and for no other kind.
C8_DrawOrder ==
    ( /\ Drew
      /\ last_call.result = "Ok"
      /\ highlighted_item = 0
      /\ SurfaceHoldsHeader
      /\ SumHeights(Children, 1, Len(Children)) <= ViewportHeight ) =>
        /\ [i \in DOMAIN LastOps |-> Shape(LastOps[i])] =
             << <<"clear", 0, "", "Left">>,
                <<"text", 0, menu_tree_root.label, "Left">> >>
             \o ExpectedRows(Children, 1)
        /\ LastOps[2].area = last_call.display
        /\ LastOps[2].pos = <<0, 0>>
        /\ LastOps[2].style = "heading"

\* the example: "Settings" holding Checkbox "Sound" then Section "About"
C8_Witness ==
    /\ Drew
    /\ last_call.result = "Ok"
    /\ highlighted_item = 0
    /\ SurfaceHoldsHeader /\ ~last_call.wrapped
    /\ SumHeights(Children, 1, Len(Children)) <= ViewportHeight
    /\ \A i \in DOMAIN LastOps : LastOps[i].op # "triangle"
    /\ menu_tree_root.label = "Settings"
    /\ Len(Children) = 2
    /\ Children[1].kind = "Checkbox" /\ Children[1].label = "Sound"
    /\ Children[2].kind = "Section" /\ Children[2].label = "About"
    /\ [i \in DOMAIN LastOps |-> <<LastOps[i].op, LastOps[i].text>>] =
         << <<"clear", "">>, <<"text", "Settings">>, <<"text", "Sound">>,
            <<"text", "[ ]">>, <<"text", "About">> >>

\* C9: draw skips exactly the first `cursor` entries of the sequence it walks:
\* no skipped entry is drawn, the first row drawn is the entry at index cursor
\* (counting from 0) at the top of the viewport, that row is drawn whenever
\* it fits and the pass succeeds, and no row is drawn when the cursor is at or
\* past the number of entries.
C9_SkipsCursorEntries ==
    Drew =>
        /\ \A i \in EntryOps : LastOps[i].entry > highlighted_item
        /\ highlighted_item >= Len(Children) => EntryOps = {}
        /\ EntryOps # {} =>
             LET o == LastOps[3]
                 node == Children[highlighted_item + 1]
             IN  /\ o.entry = highlighted_item + 1
                 /\ o.height = node.height
                 /\ Shape(o) = ExpectedRow(node, highlighted_item + 1)[1]
                 /\ SurfaceHoldsHeader =>
                      /\ o.region.oy = menu_style.heading_height
                      /\ o.region.ox = 0
        /\ ( /\ last_call.result = "Ok"
             /\ highlighted_item < Len(Children)
             /\ Children[highlighted_item + 1].height <= ViewportHeight ) =>
               \E i \in EntryOps : LastOps[i].entry = highlighted_item + 1

C9_Witness ==
    /\ Drew
    /\ last_call.result = "Ok"
    /\ SurfaceHoldsHeader /\ ~last_call.wrapped
    /\ highlighted_item = 1
    /\ Len(Children) = 2
    /\ Children[1].kind # Children[2].kind
    /\ EntryOps # {}
    /\ LastOps[3].entry = 2

\* C10: for every Submenu row of height h drawn into a region of width W, the
\* indicator area is the rightmost h/2 columns of the region, the label area
\* is the W - h/2 columns left of it, the triangle's vertices are (0, 2),
\* (0, h - 2) and (h/2 - 2, (h - 4)/2 + 2), and none of the subtractions goes
\* below zero.
C10_SubmenuGeometry ==
    Drew =>
        \A i \in DOMAIN LastOps :
            LastOps[i].op = "triangle" =>
                LET o == LastOps[i]
                    h == o.height
                    W == o.region.w
                    half == h \div 2
                IN  /\ h - 2 >= 0 /\ half - 2 >= 0 /\ h - 4 >= 0 /\ W - half >= 0
                    /\ o.area.w = half
                    /\ o.area.ox = o.region.ox + W - half
                    /\ o.pts = << <<0, 2>>, <<0, h - 2>>,
                                  <<half - 2, ((h - 4) \div 2) + 2>> >>
                    /\ (i + 1) \in DOMAIN LastOps =>
                         /\ LastOps[i + 1].op = "text"
                         /\ LastOps[i + 1].area.ox = o.region.ox
                         /\ LastOps[i + 1].area.w = W - half

\* the labels of the entry rows of the last pass, in the order drawn
IsRowLabel(o) == o.entry > 0 /\ o.op = "text" /\ o.text # "[ ]"
RowLabels == [i \in DOMAIN SelectSeq(LastOps, IsRowLabel) |->
                SelectSeq(LastOps, IsRowLabel)[i].text]
Labels(nodes) == [i \in DOMAIN nodes |-> nodes[i].label]
RootChildren == menu_tree_root.children
Descendants == DepthFirst(menu_tree_root.children)

\* a successful pass from cursor 0 on a surface where every node below the
\* root would fit
WholeTreeFits ==
    /\ Drew
    /\ last_call.result = "Ok"
    /\ highlighted_item = 0
    /\ SurfaceHoldsHeader
    /\ SumHeights(Descendants, 1, Len(Descendants)) <= ViewportHeight

\* C11 (as stated): the entry sequence draw walks is the depth-first
\* traversal of every node except the root: in a successful pass from cursor
\* 0 where all of them fit, the rows drawn are the labels of that traversal,
\* nested titles and nested entries included.
C11_WalksDepthFirst ==
    WholeTreeFits => RowLabels = Labels(Descendants)

\* C11 (amended): the entry sequence draw walks is the root's direct
\* children in insertion order: in a successful pass from cursor 0 where
\* every node would fit, the rows drawn are the labels of the root's
\* children, a nested menu contributing its title row and none of its
\* entries.
C11_WalksRootChildren ==
    WholeTreeFits => RowLabels = Labels(RootChildren)

C11_Witness ==
    /\ WholeTreeFits /\ ~last_call.wrapped
    /\ Len(RootChildren) = 2
    /\ RootChildren[1].kind = "Submenu"
    /\ Len(RootChildren[1].children) = 1
    /\ RootChildren[2].kind = "Section"
    /\ Len(Descendants) = 3
    /\ RowLabels = <<NestedLabel, LabelOf("Section")>>

\* the number of nodes of the whole tree, root included
NodeCount == Len(Descendants) + 1

\* C12 (as stated): after every structural mutation item_count equals the
\* number of nodes of the whole tree, root and absorbed submenus' nodes
\* included.
C12_CountsAllNodes ==
    mutations >= 1 => item_count = NodeCount

\* C12 (amended): after every structural mutation item_count equals the
\* number of direct children of the root, and every mutation, add_submenu of
\* a nested menu holding k entries included, raises item_count by exactly 1.
C12_CountsRootChildren ==
    /\ [](item_count = Len(RootChildren))
    /\ [][mutations' = mutations + 1 => item_count' = item_count + 1]_vars

C12_Witness ==
    /\ last_call.op = "add_submenu"
    /\ Len(RootChildren) = 2
    /\ Len(RootChildren[2].children) = 1
    /\ NodeCount = 4
    /\ item_count = 2

\* the heights of the rows the last pass walked before entry e
HeightBefore(e) == SumHeights(RootChildren, highlighted_item + 1, e - 1)

\* C13: every entry row is drawn against a sub-region whose top
\* is the top of the current viewport, whose width is the viewport's width
\* and whose height is exactly the entry's measured height.
C13_RegionIsRowHigh ==
    Drew =>
        \A i \in EntryOps :
            LET o == LastOps[i]
            IN  /\ o.region.oy = menu_style.heading_height + HeightBefore(o.entry)
                /\ o.region.w = last_call.display.w
                /\ o.region.h = o.height

\* C14: in every pass the k-th drawn row starts at y = header height + the
\* heights of the rows drawn before it, no row overlaps the header or
\* another row, and the heights of all drawn rows sum to at most surface
\* height - header height.
C14_RowsStackBelowHeader ==
    Drew =>
        /\ \A i \in EntryOps :
             /\ LastOps[i].region.oy =
                  menu_style.heading_height + HeightBefore(LastOps[i].entry)
             /\ LastOps[i].region.oy >= menu_style.heading_height
        /\ \A i \in EntryOps : \A j \in EntryOps :
             LastOps[i].entry < LastOps[j].entry =>
               LastOps[i].region.oy + LastOps[i].height <= LastOps[j].region.oy
        /\ \A i \in EntryOps :
             HeightBefore(LastOps[i].entry) + LastOps[i].height
               <= last_call.display.h - menu_style.heading_height

\* C15: move_up called with the cursor at 0 sets the cursor to
\* item_count - 1, which for item_count = 0 is (0 - 1) modulo the word size.
C15_UpFromZeroWraps ==
    [][(last_call'.op = "navigate_up" /\ highlighted_item = 0) =>
         highlighted_item' = UsizeSub(item_count, 1).val]_vars

\* C16: every mutation overwrites item_count and leaves the cursor exactly
\* as it was, neither reset nor clamped, also when the cursor is out of the
\* new count's range.
C16_MutationKeepsCursor ==
    [][mutations' = mutations + 1 =>
         /\ last_call'.op \in {"add_item", "add_checkbox", "add_selector",
                               "add_section", "add_submenu"}
         /\ highlighted_item' = highlighted_item
         /\ item_count' = Len(menu_tree_root'.children)]_vars

C16_Witness ==
    /\ last_call.op = "add_checkbox"
    /\ item_count = 1
    /\ highlighted_item > item_count

\* C17: when navigate_up is never called while item_count = 0, every state
\* reached by mutation, navigate_down and navigate_up calls has
\* 0 <= cursor <= item_count, and item_count never decreases; none of these
\* calls panics (only the host's own translate_impl, before add_item, can).
C17_CursorAtMostCount ==
    /\ [](/\ 0 <= highlighted_item
          /\ highlighted_item <= item_count
          /\ panicked => last_call.op = "translate_impl")
    /\ [][item_count' >= item_count]_vars

\* the upper bound is attained
C17_Witness ==
    /\ last_call.op = "navigate_down"
    /\ item_count = MaxItems
    /\ highlighted_item = item_count

\* C18: draw and select_item leave the cursor, item_count and the tree
\* unchanged; navigate_up and navigate_down leave item_count and the tree
\* unchanged; a draw that follows a draw on the same surface issues the same
\* operations, up to the operation at which either of them failed.
C18_FrameEffects ==
    [][/\ last_call'.op \in {"draw", "select_item"} =>
            UNCHANGED <<menu_tree_root, highlighted_item, item_count>>
       /\ last_call'.op \in {"navigate_up", "navigate_down"} =>
            UNCHANGED <<menu_tree_root, item_count>>
       /\ ( /\ last_call.op = "draw" /\ last_call'.op = "draw"
            /\ last_call'.display = last_call.display ) =>
              /\ \A i \in DOMAIN last_call.ops \cap DOMAIN last_call'.ops :
                   last_call'.ops[i] = last_call.ops[i]
              /\ last_call'.fail_at = last_call.fail_at =>
                   last_call' = last_call]_vars

C18_Witness ==
    /\ Drew /\ last_call.result = "Ok"
    /\ SurfaceHoldsHeader /\ ~last_call.wrapped
    /\ highlighted_item = 1
    /\ item_count = 2
    /\ Len(LastOps) >= 3
    /\ last_call.cursor = highlighted_item

\* C19: no unsigned height subtraction of a pass goes below zero: neither
\* display height - header height, on any surface, nor remaining height -
\* item height for any row.
C19_SubtractionsSafe ==
    Drew => (~last_call.view_underflow /\ ~last_call.row_underflow)

====
